---- MODULE Spec2Model ----
(***************************************************************************)
(* Model of document_summarization.py: tf_idf (the sentence-word matrix    *)
(* and the long-sentence vector), cos_similarity, and summarize (ranking   *)
(* and the greedy selection loop).                                         *)
(*                                                                         *)
(* Real numbers are fixed-point integers in units of 1/1000.  math.log is  *)
(* a table of ln(n)*1000; np.linalg.norm is the square root rounded up, so *)
(* that dot/(norm*norm) stays within [-1, 1] as it does (up to one ulp) in *)
(* IEEE arithmetic; np.cos is its Taylor polynomial of degree 6.  A float  *)
(* that can be NaN is a record [nan, v].                                   *)
(*                                                                         *)
(* list.sort is CPython's sort of a list shorter than 64: one count_run    *)
(* and a binary insertion sort, between two reversals for reverse=True.    *)
(* The comparisons are Python's, so the order of a list holding a NaN is   *)
(* the one the interpreter produces.                                       *)
(*                                                                         *)
(* The DocProcess object is an input: Spec runs summarize on every corpus  *)
(* within the bounds.  SelSpec starts after the ranking, from every        *)
(* ranking, and lets the pairwise similarity of each iteration be any      *)
(* value: it covers every sequence of accept/reject decisions, of which    *)
(* cos_similarity as written produces only rejections.                     *)
(***************************************************************************)
EXTENDS Integers, Sequences, FiniteSets, TLC

VARIABLES
    data,             \* the DocProcess object built at line 145
    pc,               \* position in summarize / tf_idf, or the exception raised
    doc_idx,          \* tf_idf: outer loop variable (line 80)
    sen_idx,          \* tf_idf: inner loop variable (line 83)
    general_sen_idx,  \* tf_idf: sentence index in multi-doc scope (line 79)
    s_w_matrix,       \* the sentence-word matrix (line 75)
    long_sen_vector,  \* the long-sentence vector (line 107)
    printed,          \* words reported by print('error. no such word ', word)
    sim_lst,          \* summarize: list of (cosine, row) tuples (line 153)
    base_rank,        \* summarize (line 159)
    current_rank,     \* summarize (line 160)
    summary,          \* summarize: the accepted texts (line 161)
    sum_size,         \* summarize: running length of the summary (line 162)
    sim,              \* summarize: the last pairwise similarity (line 169)
    cmp               \* the rows passed to cos_similarity at lines 169-170

vars == <<data, pc, doc_idx, sen_idx, general_sen_idx, s_w_matrix,
          long_sen_vector, printed, sim_lst, base_rank, current_rank,
          summary, sum_size, sim, cmp>>

\* ------------------------------------------------------------------ bounds

\* at most this many documents in the corpus
MaxDoc == 2
\* at most this many sentences in one document
MaxSen == 2
\* a word occurs at most this many times in one document
MaxCount == 1
\* at most this many ranked sentences when the selection loop is checked alone
MaxRank == 3

\* the words a vocabulary is drawn from (a vocabulary is a prefix of it)
Words == <<"w1", "w2">>

\* the lengths data.abstract(...) texts may have
TextLens == {1, 665}

\* ------------------------------------------------------------------ floats

NaN == [nan |-> TRUE, v |-> 0]

Fl(x) == [nan |-> FALSE, v |-> x]

\* a < b on floats: false as soon as one operand is NaN
FLt(a, b) == ~a.nan /\ ~b.nan /\ a.v < b.v

\* a == b on floats: false as soon as one operand is NaN
FEq(a, b) == ~a.nan /\ ~b.nan /\ a.v = b.v

\* ln(n) * 1000, n = 1..9
LnTable == <<0, 693, 1099, 1386, 1609, 1792, 1946, 2079, 2197>>

\* math.log(num / den) * 1000
Log(num, den) == LnTable[num] - LnTable[den]

RECURSIVE SqrtUpFrom(_, _, _)
SqrtUpFrom(lo, hi, x) ==
    IF lo >= hi THEN lo
    ELSE LET mid == (lo + hi) \div 2
         IN  IF mid * mid >= x THEN SqrtUpFrom(lo, mid, x)
             ELSE SqrtUpFrom(mid + 1, hi, x)

\* the least n with n*n >= x
SqrtUp(x) == SqrtUpFrom(0, 46340, x)

RECURSIVE DotFrom(_, _, _)
DotFrom(u, v, i) ==
    IF i > Len(u) THEN 0 ELSE u[i] * v[i] + DotFrom(u, v, i + 1)

\* sentence1.dot(sentence2), in units of 1/1000000
Dot(u, v) == DotFrom(u, v, 1)

\* np.linalg.norm(u), in units of 1/1000
Norm(u) == SqrtUp(Dot(u, u))

\* np.cos(x) for x in [-1000, 1000] (units of 1/1000)
Cos(x) ==
    LET x2 == (x * x) \div 1000
        x4 == (x2 * x2) \div 1000
        x6 == (x4 * x2) \div 1000
    IN  1000 - (x2 \div 2) + (x4 \div 24) - (x6 \div 720)

\* the variant that returns the normalized dot product itself
cos_similarity_norm(sentence1, sentence2) ==
    LET sen1_pro_sen2 == Dot(sentence1, sentence2)
        amp_sen1 == Norm(sentence1)
        amp_sen2 == Norm(sentence2)
    IN  IF amp_sen1 * amp_sen2 = 0 THEN NaN
        ELSE Fl((sen1_pro_sen2 * 1000) \div (amp_sen1 * amp_sen2))

\* cos_similarity: 0/0 (or x/0) is nan or inf, and np.cos of either is nan
cos_similarity(sentence1, sentence2) ==
    LET sen1_pro_sen2 == Dot(sentence1, sentence2)
        amp_sen1 == Norm(sentence1)
        amp_sen2 == Norm(sentence2)
    IN  IF amp_sen1 * amp_sen2 = 0 THEN NaN
        ELSE Fl(Cos((sen1_pro_sen2 * 1000) \div (amp_sen1 * amp_sen2)))

\* ----------------------------------------------------- the corpus (DocProcess)

Max0(x) == IF x > 0 THEN x ELSE 0

RECURSIVE SumTo(_, _)
\* f[1] + ... + f[n]
SumTo(f, n) == IF n = 0 THEN 0 ELSE f[n] + SumTo(f, n - 1)

doc_size == data.doc_size

word_list == data.word_list

\* sentences of document d (0-based)
sen_size(d) == data.sen_size[d + 1]

sen_size_total == SumTo(data.sen_size, doc_size)

\* occurrences of word in document d, -1 when the word is not known
count_in_doc(word, d) == data.count[word][d + 1]

\* number of all words in document d
word_size(d) ==
    SumTo([i \in 1..Len(word_list) |-> Max0(count_in_doc(word_list[i], d))],
          Len(word_list))

count_doc_containing_word(word) ==
    Cardinality({d \in 0..(doc_size - 1) : count_in_doc(word, d) > 0})

count_total_in_doc(word) ==
    SumTo([i \in 1..doc_size |-> Max0(count_in_doc(word, i - 1))], doc_size)

word_size_total ==
    SumTo([i \in 1..doc_size |-> word_size(i - 1)], doc_size)

\* the document (0-based) holding global sentence g (0-based)
RECURSIVE DocOfFrom(_, _)
DocOfFrom(g, d) ==
    IF g < sen_size(d) THEN d ELSE DocOfFrom(g - sen_size(d), d + 1)

DocOf(g) == DocOfFrom(g, 0)

\* the sentences of documents 0..d-1
SenBefore(d) == SumTo(data.sen_size, d)

\* a word's counts over n documents: unknown to the corpus (-1 everywhere),
\* or a count per document
WordCounts(n) ==
    {[d \in 1..n |-> -1]} \cup [1..n -> 0..MaxCount]

\* a corpus the collaborator can hold: a word it knows occurs somewhere, and
\* only in documents that have sentences; a vocabulary has a known word
IsCorpus(d) ==
    LET n == d.doc_size
        ws == {d.word_list[i] : i \in 1..Len(d.word_list)}
    IN  /\ \A w \in ws : \A i \in 1..n :
              d.count[w][i] > 0 => d.sen_size[i] > 0
        /\ \A w \in ws :
              (\A i \in 1..n : d.count[w][i] >= 0)
                  => (\E i \in 1..n : d.count[w][i] > 0)
        /\ ws # {} => \E w \in ws : \E i \in 1..n : d.count[w][i] > 0

\* the corpus of the runs that check the selection loop alone
NoCorpus ==
    [doc_size |-> 0, sen_size |-> <<>>, word_list |-> <<>>,
     count |-> [w \in {} |-> <<>>]]

\* ------------------------------------------------------------------ tf_idf

\* np.zeros((rows, cols))
Zeros(rows, cols) == [r \in 1..rows |-> [c \in 1..cols |-> 0]]

\* data.word_list.index(word), 0-based
WordIndex(word) ==
    (CHOOSE i \in 1..Len(word_list) : word_list[i] = word) - 1

\* tf = count / wrd_sz_doc
TfValue(count, wrd_sz_doc) == (count * 1000) \div wrd_sz_doc

\* the variant without the +1 in the denominator
IdfNoPlusOne(word) == Log(doc_size, count_doc_containing_word(word))

\* idf = math.log(data.doc_size() / (data.count_doc_containing_word(word) + 1))
Idf(word) == Log(doc_size, count_doc_containing_word(word) + 1)

\* the value the loop body leaves in s_w_matrix[general_sen_idx, wrd_idx]
\* when the entry held old before
Entry(old, word, d) ==
    LET count == count_in_doc(word, d)
    IN  IF count = 0 THEN old
        ELSE IF count > 0
             THEN (TfValue(count, word_size(d)) * Idf(word)) \div 1000
             ELSE old

\* the row of a sentence of document d after the loop over data.word_list
Row(old, d) ==
    [c \in 1..Len(word_list) |->
        LET word == CHOOSE w \in {word_list[i] : i \in 1..Len(word_list)} :
                        WordIndex(w) + 1 = c
        IN  Entry(old[c], word, d)]

\* the words the loop over data.word_list reports as unknown in document d
Reported(d) ==
    {word_list[i] : i \in {j \in 1..Len(word_list) :
                             count_in_doc(word_list[j], d) = -1}}

\* the variant that restarts the row index in every document
RowIndexPerDoc(g, s) == s

\* the row written for the sentence reached with general_sen_idx = g, sen_idx = s
RowIndex(g, s) == g

\* one pass of the loop over the sentences of a document (lines 83-103)
TfIdfSentence ==
    /\ pc = "tf_idf"
    /\ doc_idx < doc_size
    /\ sen_idx < sen_size(doc_idx)
    /\ LET r == RowIndex(general_sen_idx, sen_idx) + 1
       IN  s_w_matrix' = [s_w_matrix EXCEPT ![r] = Row(s_w_matrix[r], doc_idx)]
    /\ printed' = printed \cup Reported(doc_idx)
    /\ general_sen_idx' = general_sen_idx + 1
    /\ sen_idx' = sen_idx + 1
    /\ UNCHANGED <<data, pc, doc_idx, long_sen_vector, sim_lst, base_rank,
                   current_rank, summary, sum_size, sim, cmp>>

\* the end of one pass of the loop over the documents (lines 80, 104)
TfIdfDocDone ==
    /\ pc = "tf_idf"
    /\ doc_idx < doc_size
    /\ sen_idx = sen_size(doc_idx)
    /\ doc_idx' = doc_idx + 1
    /\ sen_idx' = 0
    /\ UNCHANGED <<data, pc, general_sen_idx, s_w_matrix, long_sen_vector,
                   printed, sim_lst, base_rank, current_rank, summary,
                   sum_size, sim, cmp>>

\* the long-sentence vector (lines 107-112): idf is math.log(1 / (1 + 1))
LongVector ==
    [c \in 1..Len(word_list) |->
        (TfValue(count_total_in_doc(word_list[c]), word_size_total)
            * Log(1, 1 + 1)) \div 1000]

\* lines 105-114: tf divides by word_size_total for every word of the list
TfIdfLongVector ==
    /\ pc = "tf_idf"
    /\ doc_idx = doc_size
    /\ IF Len(word_list) > 0 /\ word_size_total = 0
       THEN /\ pc' = "ZeroDivisionError"
            /\ UNCHANGED long_sen_vector
       ELSE /\ long_sen_vector' = LongVector
            /\ pc' = "rank"
    /\ UNCHANGED <<data, doc_idx, sen_idx, general_sen_idx, s_w_matrix,
                   printed, sim_lst, base_rank, current_rank, summary,
                   sum_size, sim, cmp>>

\* -------------------------------------------------------- list.sort(reverse=True)

\* a < b on (cosine, row) tuples: the first items that are not == decide
TupleLt(a, b) == IF FEq(a[1], b[1]) THEN a[2] < b[2] ELSE FLt(a[1], b[1])

Reverse(s) == [i \in 1..Len(s) |-> s[Len(s) + 1 - i]]

RECURSIVE DescRun(_, _)
DescRun(s, k) ==
    IF k < Len(s) /\ TupleLt(s[k + 1], s[k]) THEN DescRun(s, k + 1) ELSE k

RECURSIVE AscRun(_, _)
AscRun(s, k) ==
    IF k < Len(s) /\ ~TupleLt(s[k + 1], s[k]) THEN AscRun(s, k + 1) ELSE k

\* count_run: the length of the run at the start of s, and whether it descends
CountRun(s) ==
    IF TupleLt(s[2], s[1]) THEN <<DescRun(s, 2), TRUE>>
    ELSE <<AscRun(s, 2), FALSE>>

RECURSIVE BinPos(_, _, _, _)
\* binarysort's search: where pivot goes in the sorted s[l+1 .. r]
BinPos(s, pivot, l, r) ==
    IF l >= r THEN l
    ELSE LET p == l + ((r - l) \div 2)
         IN  IF TupleLt(pivot, s[p + 1]) THEN BinPos(s, pivot, l, p)
             ELSE BinPos(s, pivot, p + 1, r)

RECURSIVE BinarySort(_, _)
\* binarysort: s[1 .. i-1] is sorted, insert s[i], s[i+1], ...
BinarySort(s, i) ==
    IF i > Len(s) THEN s
    ELSE LET l == BinPos(s, s[i], 0, i - 1)
         IN  BinarySort(SubSeq(s, 1, l) \o <<s[i]>> \o SubSeq(s, l + 1, i - 1)
                          \o SubSeq(s, i + 1, Len(s)), i + 1)

\* the stable ascending sort of a list shorter than 64 (one run, binarysort)
SortAsc(s) ==
    IF Len(s) < 2 THEN s
    ELSE LET run == CountRun(s)
             s1 == IF run[2]
                   THEN Reverse(SubSeq(s, 1, run[1]))
                           \o SubSeq(s, run[1] + 1, Len(s))
                   ELSE s
         IN  BinarySort(s1, run[1] + 1)

\* sim_lst.sort(reverse=True): reverse, sort ascending, reverse
SortReverse(s) == Reverse(SortAsc(Reverse(s)))

\* --------------------------------------------------------------- summarize

LengthBudget == 665

\* 0.539
Threshold == 539

\* lines 153-158: the similarity of every row to the long sentence, sorted
Rank ==
    /\ pc = "rank"
    /\ sim_lst' = SortReverse(
          [r \in 1..Len(s_w_matrix) |->
              <<cos_similarity(s_w_matrix[r], long_sen_vector), r - 1>>])
    /\ pc' = "select"
    /\ UNCHANGED <<data, doc_idx, sen_idx, general_sen_idx, s_w_matrix,
                   long_sen_vector, printed, base_rank, current_rank, summary,
                   sum_size, sim, cmp>>

\* data.abstract(idx): the text of sentence idx, of length len
Abstract(idx, len) == [sen |-> idx, len |-> len]

\* lines 159-162: sim_lst[base_rank] raises IndexError on an empty list
SelectInit ==
    /\ pc = "select"
    /\ base_rank' = 0
    /\ current_rank' = 1
    /\ IF Len(sim_lst) = 0
       THEN /\ pc' = "IndexError"
            /\ UNCHANGED <<summary, sum_size>>
       ELSE \E len \in TextLens :
            /\ summary' = <<Abstract(sim_lst[1][2], len)>>
            /\ sum_size' = len
            /\ pc' = "loop"
    /\ UNCHANGED <<data, doc_idx, sen_idx, general_sen_idx, s_w_matrix,
                   long_sen_vector, printed, sim_lst, sim, cmp>>

\* line 163: the loop condition is false
LoopExit ==
    /\ pc = "loop"
    /\ current_rank = Len(sim_lst)
    /\ pc' = "done"
    /\ UNCHANGED <<data, doc_idx, sen_idx, general_sen_idx, s_w_matrix,
                   long_sen_vector, printed, sim_lst, base_rank, current_rank,
                   summary, sum_size, sim, cmp>>

\* the variant with a strict comparison
BudgetMetStrict(size) == size > LengthBudget

\* line 164: sum_size >= 665
BudgetMet(size) == size >= LengthBudget

\* lines 164-165: break
LoopBreak ==
    /\ pc = "loop"
    /\ current_rank # Len(sim_lst)
    /\ BudgetMet(sum_size)
    /\ pc' = "done"
    /\ UNCHANGED <<data, doc_idx, sen_idx, general_sen_idx, s_w_matrix,
                   long_sen_vector, printed, sim_lst, base_rank, current_rank,
                   summary, sum_size, sim, cmp>>

\* the rows compared at lines 169-170: sim_lst[current_rank][1] and
\* sim_lst[base_rank][1]
CmpRows == <<sim_lst[current_rank + 1][2], sim_lst[base_rank + 1][2]>>

\* the variant that keeps the old base after an acceptance
BaseAfterAcceptKeep(cur, base) == base

\* line 173: base_rank = current_rank
BaseAfterAccept(cur, base) == cur

\* the variant that does not advance on a rejection
RankAfterRejectStay(cur) == cur

\* line 177: current_rank += 1
RankAfterReject(cur) == cur + 1

\* lines 168-177 with the similarity of the two rows being s
LoopStep(s) ==
    /\ pc = "loop"
    /\ current_rank # Len(sim_lst)
    /\ ~BudgetMet(sum_size)
    /\ sim' = s
    /\ cmp' = CmpRows
    /\ IF FLt(s, Fl(Threshold))
       THEN \E len \in TextLens :
            /\ summary' = Append(summary, Abstract(sim_lst[current_rank + 1][2], len))
            /\ base_rank' = BaseAfterAccept(current_rank, base_rank)
            /\ current_rank' = base_rank' + 1
            /\ sum_size' = sum_size + len
       ELSE /\ current_rank' = RankAfterReject(current_rank)
            /\ UNCHANGED <<summary, base_rank, sum_size>>
    /\ UNCHANGED <<data, pc, doc_idx, sen_idx, general_sen_idx, s_w_matrix,
                   long_sen_vector, printed, sim_lst>>

\* lines 169-170: the similarity is cos_similarity of the two rows
LoopCompare ==
    /\ pc = "loop"
    /\ current_rank # Len(sim_lst)
    /\ LoopStep(cos_similarity(s_w_matrix[CmpRows[1] + 1],
                               s_w_matrix[CmpRows[2] + 1]))

\* ---------------------------------------------------------- specifications

\* summarize(doc_path, doc_list) on every corpus within the bounds
Init ==
    /\ \E n \in 0..MaxDoc : \E k \in 0..Len(Words) :
          \E ss \in [1..n -> 0..MaxSen] :
             \E c \in [{Words[i] : i \in 1..k} -> WordCounts(n)] :
                /\ data = [doc_size |-> n, sen_size |-> ss,
                           word_list |-> SubSeq(Words, 1, k), count |-> c]
                /\ IsCorpus(data)
    /\ pc = "tf_idf"
    /\ doc_idx = 0
    /\ sen_idx = 0
    /\ general_sen_idx = 0
    /\ s_w_matrix = Zeros(sen_size_total, Len(word_list))
    /\ long_sen_vector = <<>>
    /\ printed = {}
    /\ sim_lst = <<>>
    /\ base_rank = 0
    /\ current_rank = 0
    /\ summary = <<>>
    /\ sum_size = 0
    /\ sim = Fl(0)
    /\ cmp = <<>>

Next ==
    \/ TfIdfSentence
    \/ TfIdfDocDone
    \/ TfIdfLongVector
    \/ Rank
    \/ SelectInit
    \/ LoopExit
    \/ LoopBreak
    \/ LoopCompare

Spec == Init /\ [][Next]_vars

\* the values a pairwise similarity is drawn from when the loop is checked
\* for every sequence of accept/reject decisions
SimValues == {NaN, Fl(538), Fl(539), Fl(1000)}

\* the scores a ranking is built from when the loop is checked alone
ScoreValues == {NaN, Fl(540), Fl(1000)}

\* the state after line 158, for every ranking of 1..MaxRank sentences
InitSel ==
    /\ data = NoCorpus
    /\ pc = "select"
    /\ doc_idx = 0
    /\ sen_idx = 0
    /\ \E n \in 1..MaxRank : \E score \in [1..n -> ScoreValues] :
          /\ general_sen_idx = n
          /\ sim_lst = SortReverse([r \in 1..n |-> <<score[r], r - 1>>])
    /\ s_w_matrix = <<>>
    /\ long_sen_vector = <<>>
    /\ printed = {}
    /\ base_rank = 0
    /\ current_rank = 0
    /\ summary = <<>>
    /\ sum_size = 0
    /\ sim = Fl(0)
    /\ cmp = <<>>

\* lines 168-177 for any outcome of the comparison
LoopAny == \E s \in SimValues : LoopStep(s)

NextSel ==
    \/ SelectInit
    \/ LoopExit
    \/ LoopBreak
    \/ LoopAny

\* the selection loop alone; the interpreter always takes the next step
SelSpec == InitSel /\ [][NextSel]_vars /\ WF_vars(NextSel)

\* ------------------------------------------------------------------ claims

\* pc values at which the ranking of line 158 exists
Ranked == pc \in {"select", "loop", "done", "IndexError"}

\* the rows tf_idf has written so far (0-based)
Written == 0..(general_sen_idx - 1)

Cols == 1..Len(word_list)

\* C1: an iteration of the selection loop entered with sum_size >= 665
\* appends nothing: the loop stops there with the summary unchanged.
C1_BudgetCheckPrecedesAppend ==
    [][(pc = "loop" /\ sum_size >= LengthBudget)
          => (pc' = "done" /\ summary' = summary)]_vars

\* the loop broke on the budget after accepting a second sentence, with
\* ranked sentences left
C1_Witness ==
    /\ pc = "done"
    /\ sum_size >= LengthBudget
    /\ current_rank < Len(sim_lst)
    /\ Len(summary) >= 2

\* C2 as stated: the matrix entry (s, t) is 0 if and only if t does not
\* occur in the document containing s (its count there is 0, or the word is
\* not known): a term that occurs in the document never gets weight 0.
C2_ZeroIffAbsent ==
    \A g \in Written : \A c \in Cols :
        (s_w_matrix[g + 1][c] = 0)
            <=> (count_in_doc(word_list[c], DocOf(g)) <= 0)

\* C2 amended: the matrix entry (s, t) is 0 if and only if the count of t in
\* the document containing s is not positive, or the number of documents
\* containing t plus one equals the number of documents (idf = log(1) = 0).
C2_ZeroIffAbsentOrIdfZero ==
    \A g \in Written : \A c \in Cols :
        (s_w_matrix[g + 1][c] = 0)
            <=> \/ count_in_doc(word_list[c], DocOf(g)) <= 0
                \/ count_doc_containing_word(word_list[c]) + 1 = doc_size

\* a written row holds a zero weight for a word that occurs in its document
\* and a nonzero weight for another word
C2_Witness ==
    \E g \in Written : \E c1 \in Cols : \E c2 \in Cols :
        /\ count_in_doc(word_list[c1], DocOf(g)) > 0
        /\ s_w_matrix[g + 1][c1] = 0
        /\ count_in_doc(word_list[c2], DocOf(g)) > 0
        /\ s_w_matrix[g + 1][c2] # 0

\* C3: in the ranking no sentence comes after one of smaller score, and
\* sentences of equal score come in ascending order of sentence index.
C3_DescendingTiesAscending ==
    Ranked =>
        \A i \in 1..Len(sim_lst) : \A j \in 1..Len(sim_lst) :
            i < j =>
                /\ ~FLt(sim_lst[i][1], sim_lst[j][1])
                /\ FEq(sim_lst[i][1], sim_lst[j][1])
                      => sim_lst[i][2] < sim_lst[j][2]

\* u is an all-zero vector over a nonempty vocabulary
ZeroVector(u) == Len(u) > 0 /\ \A i \in 1..Len(u) : u[i] = 0

\* C4: a cosine comparison with an all-zero operand evaluates to similarity
\* 0, in the ranking (row against the long sentence) and in the redundancy
\* test (row against row): never NaN.
C4_ZeroVectorGivesZero ==
    /\ Ranked =>
          \A i \in 1..Len(sim_lst) :
              (ZeroVector(s_w_matrix[sim_lst[i][2] + 1])
                  \/ ZeroVector(long_sen_vector))
                => sim_lst[i][1] = Fl(0)
    /\ (/\ Ranked
        /\ cmp # <<>>
        /\ \/ ZeroVector(s_w_matrix[cmp[1] + 1])
           \/ ZeroVector(s_w_matrix[cmp[2] + 1]))
          => sim = Fl(0)

\* C5: on a corpus without sentences summarize raises nothing and returns
\* the empty sequence.
C5_EmptyCorpusReturnsEmpty ==
    sen_size_total = 0 =>
        /\ pc \notin {"IndexError", "ZeroDivisionError"}
        /\ pc = "done" => summary = <<>>

\* C6: the similarity of two nonzero rows is their normalized dot product,
\* and so that of a nonzero row with itself is 1 (to within 1/100).
C6_SelfSimilarityIsOne ==
    (Ranked /\ cmp # <<>>) =>
        LET u == s_w_matrix[cmp[1] + 1]
            v == s_w_matrix[cmp[2] + 1]
        IN  (Norm(u) > 0 /\ Norm(v) > 0) =>
                /\ sim = cos_similarity_norm(u, v)
                /\ u = v => (~sim.nan /\ sim.v >= 990 /\ sim.v <= 1010)

\* C7: once count_in_doc has returned -1 for a word, tf_idf returns no
\* matrix: summarize never gets to rank or select.
C7_UnknownTermIsFatal ==
    printed # {} => pc \notin {"rank", "select", "loop", "done"}

\* C8: at every comparison of the selection loop base_rank is the ranking
\* position of the last appended sentence, base_rank < current_rank <
\* |sim_lst|, the candidate is compared with that sentence's row only, an
\* accepted candidate becomes base_rank and a rejected one changes neither
\* base_rank nor the summary.
C8_ComparesWithLastAccepted ==
    [][(pc = "loop" /\ pc' = "loop") =>
          /\ base_rank < current_rank
          /\ current_rank < Len(sim_lst)
          /\ sim_lst[base_rank + 1][2] = summary[Len(summary)].sen
          /\ cmp' = <<sim_lst[current_rank + 1][2], summary[Len(summary)].sen>>
          /\ IF FLt(sim', Fl(Threshold))
             THEN /\ base_rank' = current_rank
                  /\ Len(summary') = Len(summary) + 1
                  /\ summary'[Len(summary')].sen = sim_lst[current_rank + 1][2]
             ELSE /\ base_rank' = base_rank
                  /\ summary' = summary]_vars

\* a candidate was rejected against the second accepted sentence, which is
\* not the top-ranked one
C8_Witness ==
    /\ pc = "loop"
    /\ Len(summary) >= 2
    /\ cmp # <<>>
    /\ cmp[2] = summary[Len(summary)].sen
    /\ cmp[2] # summary[1].sen
    /\ ~FLt(sim, Fl(Threshold))
    /\ current_rank >= base_rank + 2

\* C9: the selection loop terminates; every iteration advances current_rank
\* by one and never decreases sum_size; at the exit sum_size >= 665 or
\* current_rank = |sim_lst|.
C9_LoopTerminates ==
    /\ [][(pc = "loop" /\ pc' = "loop")
             => (current_rank' = current_rank + 1 /\ sum_size' >= sum_size)]_vars
    /\ [](pc = "done"
             => (sum_size >= LengthBudget \/ current_rank = Len(sim_lst)))
    /\ <>(pc = "done")

\* the loop ended by exhausting a ranking of several sentences under budget,
\* having accepted and rejected
C9_Witness ==
    /\ pc = "done"
    /\ current_rank = Len(sim_lst)
    /\ sum_size < LengthBudget
    /\ Len(sim_lst) >= 3
    /\ Len(summary) = 2

\* C10: general_sen_idx counts the sentences passed so far, in document
\* order, and ends at the total sentence count; every written row is the row
\* of its sentence's document, so sentences of one document have equal rows;
\* rows not yet reached are still zero.
C10_RowsFollowSentenceOrder ==
    /\ (pc = "tf_idf" /\ doc_idx < doc_size)
          => general_sen_idx = SenBefore(doc_idx) + sen_idx
    /\ (pc # "tf_idf" \/ doc_idx = doc_size)
          => general_sen_idx = sen_size_total
    /\ Len(s_w_matrix) = sen_size_total
    /\ \A g \in 0..(sen_size_total - 1) :
          s_w_matrix[g + 1] =
              IF g \in Written
              THEN Row([c \in Cols |-> 0], DocOf(g))
              ELSE [c \in Cols |-> 0]
    /\ \A g \in Written : \A h \in Written :
          DocOf(g) = DocOf(h) => s_w_matrix[g + 1] = s_w_matrix[h + 1]

\* the matrix of two documents of two sentences each is complete, and the
\* two documents have different rows
C10_Witness ==
    /\ pc = "rank"
    /\ doc_size = 2
    /\ sen_size(0) = 2
    /\ sen_size(1) = 2
    /\ s_w_matrix[1] = s_w_matrix[2]
    /\ s_w_matrix[3] = s_w_matrix[4]
    /\ s_w_matrix[2] # s_w_matrix[3]
====
